---- MODULE Spec2Model ----
(***************************************************************************)
(* Device session controller of pixelart-controller.                       *)
(*                                                                         *)
(*   services/api.ts        LEDPanelAPI: request/response calls and the    *)
(*                          WebSocket push channel with its 3 s reconnect  *)
(*   context/AppContext.tsx AppProvider: connected / deviceAddress /       *)
(*                          deviceInfo / status and the context methods    *)
(*                          (the file is the second half of src/main.tsx)  *)
(*   App.tsx                App: local status / deviceInfo and handlers    *)
(*                          that call the api object directly              *)
(*   components/cards/*.tsx handlers that go through the context           *)
(*                                                                         *)
(* The FastAPI backend is not part of the sources at hand; the remote      *)
(* service is modelled from section 6 of the specification.                *)
(***************************************************************************)
EXTENDS Integers, Sequences, FiniteSets, Bags, TLC

\* ------------------------------------------------------------------ bounds
MaxMounts == 2      \* runs of the AppProvider effect (StrictMode runs it twice)
MaxSockets == 4     \* WebSocket objects ever constructed
MaxTimers == 3      \* setTimeout calls ever made by ws.onclose
MaxTasks == 1       \* async handlers suspended at an await at the same time
MaxCommands == 2    \* command handlers suspended at an await at the same time, where they overlap
MaxScans == 2       \* scan requests one handler awaits at the same time

\* ------------------------------------------------------------ value spaces
NoAddr == "none"                         \* null / undefined address
Addr == {"A", "B"}                       \* hardware addresses of two panels
NoTimer == 0                             \* wsReconnectTimer = null
NoSocket == 0                            \* ws = null
ReconnectDelay == 3000                   \* ms, the setTimeout delay of ws.onclose

\* WebSocket.readyState
CONNECTING == "CONNECTING"
OPEN == "OPEN"
CLOSING == "CLOSING"
CLOSED == "CLOSED"

\* DeviceStatus / WebSocketMessage payload: {connected, device_address?}
StatusOf(a) == [connected |-> a # NoAddr, device_address |-> a]
Disconnected == StatusOf(NoAddr)

VARIABLES
  \* ---- LEDPanelAPI (api.ts)
  ws,               \* index into sockets of this.ws, NoSocket for null
  wsReconnectTimer, \* id held in this.wsReconnectTimer, NoTimer for null
  statusCallbacks,  \* this.statusCallbacks: sequence of observers (effect run that made them)
  sockets,          \* every WebSocket constructed so far: readyState, the onMessage
                    \* its onclose closes over, and whether close() was called on it
  timers,           \* pending setTimeout callbacks of onclose
  timersUsed,       \* number of setTimeout calls so far (next id - 1)
  \* ---- React effect of AppProvider
  mounted,          \* the effect is set up (between its run and its cleanup)
  nMounts,          \* effect runs so far; the observer of run n is n
  \* ---- AppProvider state
  connected, deviceAddress, deviceInfo, status,
  \* ---- App state (App.tsx 14-15); named apart from the context's status/deviceInfo
  appStatus, appDeviceInfo,
  \* ---- the remote control service: address of the device it is connected to
  remote,
  \* ---- connect / disconnect / status handlers suspended at an await
  tasks,
  \* ---- command handlers suspended at an await: a bag of commands in flight
  commands,
  \* ---- the power state the page displays: SettingsCard.tsx 12, App.tsx 39
  isPowered, appIsPowered,
  \* ---- the on / off value of the last power command of each page that was acknowledged
  powerAcked, appPowerAcked,
  \* ---- discovery: AppProvider (main.tsx 72-73) and App (App.tsx 19-20)
  devices, scanning,        \* the context's device list (set of addresses) and flag
  appDevices, appScanning,  \* App's own
  scanTasks,                \* per handler, the calls suspended at `await api.scanDevices()`
  lastScan,                 \* what the step leading here was, if it was a scan event
  \* ---- observation of the channel
  lastOpenCall,     \* the last connectWebSocket call: who made it and in which situation
  lastDelivery,     \* the observers invoked for the last frame received
  \* ---- observation of the handlers
  last,             \* what the step leading here was, if it was a handler event: a command
                    \* submission and what the handler did with it, or a connect /
                    \* disconnect handler running to its end and the session state it left
  sessionLost       \* a frame reported the session gone and no connect came since

wsVars == <<ws, wsReconnectTimer, statusCallbacks, sockets, timers, timersUsed,
            mounted, nMounts, lastOpenCall, lastDelivery>>
storeVars == <<connected, deviceAddress, deviceInfo, status>>
appVars == <<appStatus, appDeviceInfo>>
taskVars == <<remote, tasks, sessionLost>>
sessionVars == <<appVars, taskVars>>
scanVars == <<devices, scanning, appDevices, appScanning, scanTasks, lastScan>>
cmdVars == <<commands, isPowered, appIsPowered, powerAcked, appPowerAcked>>
vars == <<wsVars, storeVars, sessionVars, last, scanVars, cmdVars>>

\* teardown has been requested and the channel was not opened anew since
tornDown == ~mounted /\ nMounts > 0

Live(s) == sockets[s].readyState \in {CONNECTING, OPEN}
LiveSockets == {s \in 1..Len(sockets) : Live(s)}

\* --------------------------------------------------------------- api.ts
\* connectWebSocket(onMessage): api.ts 194-237.  The URL is a constant, so
\* `new WebSocket` does not throw and the catch branch is not taken.
\* by / unexpected / teardownSince describe the caller and go to lastOpenCall
\* only; from is the socket whose closure scheduled the call (NoSocket for the
\* effect's call) and is remembered with the socket the call constructs.
WouldConstruct == ~(ws # NoSocket /\ sockets[ws].readyState = OPEN)

connectWebSocket(onMessage, by, unexpected, teardownSince, from) ==
  /\ statusCallbacks' = Append(statusCallbacks, onMessage)
  /\ lastOpenCall' = [by |-> by, unexpected |-> unexpected, teardownSince |-> teardownSince,
                      constructed |-> WouldConstruct]
  /\ IF ~WouldConstruct
       THEN UNCHANGED <<ws, sockets>>
       ELSE /\ sockets' = Append(sockets, [readyState |-> CONNECTING,
                                           onMessage |-> onMessage,
                                           closeCalled |-> FALSE,
                                           from |-> from])
            /\ ws' = Len(sockets) + 1

\* clearTimeout(id): a fired or cleared id is a no-op
clearTimeout(id) == {t \in timers : t.id # id}

\* disconnectWebSocket(): api.ts 242-254
disconnectWebSocket ==
  /\ timers' = IF wsReconnectTimer # NoTimer THEN clearTimeout(wsReconnectTimer) ELSE timers
  /\ wsReconnectTimer' = NoTimer
  /\ sockets' = IF ws # NoSocket /\ Live(ws)
                  THEN [sockets EXCEPT ![ws].readyState = CLOSING, ![ws].closeCalled = TRUE]
                  ELSE sockets
  /\ ws' = NoSocket
  /\ statusCallbacks' = <<>>

\* an onclose that schedules the reopen for the first closure only
onclose_Once(s) ==
  IF timersUsed > 0
    THEN UNCHANGED <<timersUsed, timers, wsReconnectTimer>>
    ELSE /\ timersUsed' = timersUsed + 1
         /\ timers' = timers \cup {[id |-> timersUsed + 1, onMessage |-> sockets[s].onMessage,
                                    unexpected |-> ~sockets[s].closeCalled,
                                    scheduledIn |-> IF mounted THEN nMounts ELSE 0,
                                    socket |-> s, delay |-> ReconnectDelay]}
         /\ wsReconnectTimer' = timersUsed + 1

\* ws.onclose: api.ts 227-233.  The timer remembers the closure it comes from
\* (unexpected or after close()) and the effect run it was scheduled in.
onclose(s) ==
  /\ timersUsed < MaxTimers
  /\ timersUsed' = timersUsed + 1
  /\ timers' = timers \cup {[id |-> timersUsed + 1, onMessage |-> sockets[s].onMessage,
                             unexpected |-> ~sockets[s].closeCalled,
                             scheduledIn |-> IF mounted THEN nMounts ELSE 0,
                             socket |-> s, delay |-> ReconnectDelay]}
  /\ wsReconnectTimer' = timersUsed + 1

\* the status callback AppProvider registers: main.tsx 78-87
applyRemoteStatus(msg) ==
  /\ status' = [connected |-> msg.connected, device_address |-> msg.device_address]
  /\ connected' = msg.connected
  /\ deviceAddress' = IF msg.device_address # NoAddr THEN msg.device_address ELSE deviceAddress
  /\ UNCHANGED deviceInfo

\* --------------------------------------------------- suspended handlers
Idle == [h |-> "idle", ui |-> "-", pc |-> "idle", arg |-> NoAddr, frame |-> "none"]
Task(h, ui, pc, arg) == [h |-> h, ui |-> ui, pc |-> pc, arg |-> arg, frame |-> "none"]
FreeSlots == {i \in 1..MaxTasks : tasks[i] = Idle}
Slot == CHOOSE i \in FreeSlots : \A j \in FreeSlots : i <= j
Spawn(t) == tasks' = [tasks EXCEPT ![Slot] = t]
Continue(i, pc) == tasks' = [tasks EXCEPT ![i].pc = pc]
Finish(i) == tasks' = [tasks EXCEPT ![i] = Idle]

\* number of handlers suspended at an await, command handlers included
Suspended == Cardinality({i \in 1..MaxTasks : tasks[i] # Idle}) + BagCardinality(commands)

NoEvent == [kind |-> "none", h |-> "-", ui |-> "-", outcome |-> "none", frame |-> "none",
            connected |-> FALSE, address |-> NoAddr, info |-> FALSE,
            lost |-> FALSE, requested |-> FALSE, value |-> 0, toast |-> "none",
            held |-> NoAddr, error |-> "none"]

\* the step is no handler event
Quiet == last' = NoEvent

\* the toast a connect / disconnect handler raises when it returns: toast.error
\* in the catch, toast.success at the end of the try; handleConnect raises its
\* success toast only under `if (newStatus.connected)` (App.tsx 70-74, 76-78)
FinishedToast(t, outcome) ==
  IF outcome # "ok" THEN "error"
  ELSE IF t.h = "handleConnect" /\ ~appStatus'.connected THEN "none"
  ELSE "success"

\* a connect / disconnect handler of the given UI returns: outcome is the await
\* that threw ("ok" if none did); connected, address, info are what its store holds
Finished(t, outcome) ==
  [kind |-> "finished", h |-> t.h, ui |-> t.ui, outcome |-> outcome, frame |-> t.frame,
   connected |-> IF t.ui = "App" THEN appStatus'.connected ELSE connected',
   address |-> IF t.ui = "App" THEN appStatus'.device_address ELSE deviceAddress',
   info |-> IF t.ui = "App" THEN appDeviceInfo' ELSE deviceInfo',
   lost |-> FALSE, requested |-> FALSE, value |-> 0, toast |-> FinishedToast(t, outcome),
   held |-> NoAddr, error |-> "none"]

\* the toast a command handler raises: on its early return (refused), when its
\* request threw (failed) and when it returned (ok).  App's handleSetBrightness
\* raises none at all and handleSetOrientation none on its early return (App.tsx
\* 196-216); SettingsCard's brightness and orientation handlers return early
\* without one and the brightness handler has no success toast (14-35)
Toast(ui, family, outcome) ==
  CASE outcome \in {"NotConnected", "InvalidCommand"} ->
         IF family \in {"brightness", "orientation"} THEN "none" ELSE "error"
    [] outcome = "failed" ->
         IF ui = "App" /\ family = "brightness" THEN "none" ELSE "error"
    [] outcome = "ok" ->
         IF family = "brightness" THEN "none" ELSE "success"
    [] OTHER -> "none"

\* a command handler was invoked with the given value: connected is the status
\* it read, lost whether a frame had reported the session gone, requested
\* whether it handed a request to fetch
Submitted(ui, family, st, value, outcome) ==
  [kind |-> "submit", h |-> family, ui |-> ui, outcome |-> outcome, frame |-> "none",
   connected |-> st.connected, address |-> NoAddr, info |-> FALSE,
   lost |-> sessionLost, requested |-> commands' # commands, value |-> value,
   toast |-> Toast(ui, family, outcome), held |-> NoAddr, error |-> "none"]

\* the api method a command handler awaits first: App.tsx 104, 127, 163, 188,
\* 200, 211, 224; main.tsx 138, 148, 158, 168, 178, 188
FirstRequest(ui, family) ==
  CASE family = "text" -> "sendText"
    [] family = "image" -> "sendImage"
    [] family = "pixels" -> "setMode"
    [] family = "mode" -> IF ui = "App" THEN "setClockMode" ELSE "setMode"
    [] family = "brightness" -> "setBrightness"
    [] family = "orientation" -> "setOrientation"
    [] family = "power" -> "setPower"

\* a command in flight: the page and family of its handler, the requests the
\* handler has handed to fetch so far (it awaits the last one) and, for a power
\* command, the on / off value it asks for
Command(ui, family, on) ==
  [ui |-> ui, family |-> family, requests |-> <<FirstRequest(ui, family)>>, on |-> on]

\* the request a command in flight awaits
Awaited(c) == c.requests[Len(c.requests)]

\* the message of the Error an api method throws when the response is not ok:
\* `error.detail || ...` of the response body, but a fixed text in sendPixels
\* and setClockMode, which do not read the body (api.ts 276-278, 291-293)
ErrorMessage(request) ==
  IF request \in {"sendPixels", "setClockMode"} THEN "fixed" ELSE "detail"

\* a command handler returns after its request threw ("failed") or after its
\* last request returned ("ok"), with the toast it raised; error is the message
\* of the Error the api method threw to it
Returned(c, outcome) ==
  [NoEvent EXCEPT !.kind = "returned", !.outcome = outcome,
                  !.toast = Toast(c.ui, c.family, outcome),
                  !.error = IF outcome = "failed" THEN ErrorMessage(Awaited(c)) ELSE "none"]

\* a command handler hands its next request to fetch after the one before has
\* returned: connected is the status of its page at that moment
Requested(c, request) ==
  [NoEvent EXCEPT !.kind = "request", !.h = request, !.ui = c.ui, !.outcome = "ok",
                  !.connected = IF c.ui = "App" THEN appStatus.connected
                                ELSE status.connected]

\* the remote accepted the connect request of a connect handler: held is the
\* device session it had at that moment, connected / address what the
\* handler's store reported
Accepted(t) ==
  [NoEvent EXCEPT !.kind = "accepted", !.h = t.h, !.ui = t.ui, !.held = remote,
                  !.connected = IF t.ui = "App" THEN appStatus.connected ELSE connected,
                  !.address = IF t.ui = "App" THEN appStatus.device_address
                              ELSE deviceAddress]

\* command families of the dispatcher and the handlers that submit them
AppFamilies == {"text", "image", "pixels", "mode", "brightness", "orientation", "power"}
CardFamilies == {"text", "image", "mode", "brightness", "orientation", "power"}

\* a remote service that accepts a connect whatever session it holds
RemoteAccepts_Always(address) == TRUE

\* the remote service (specification, section 6): it holds one device session and
\* rejects a connect while it has one; it describes only a connected panel
RemoteAccepts(address) == remote = NoAddr
RemoteHasInfo == remote # NoAddr

\* a command handler without its connected check
NotConnectedGuard_Unchecked(st) == FALSE

\* `if (!status.connected) return` at the head of every command handler
NotConnectedGuard(st) == ~st.connected

\* ------------------------------------------------------------- actions
\* useEffect body: main.tsx 77-88
EffectMount ==
  /\ UNCHANGED <<scanVars, cmdVars>>
  /\ ~mounted /\ nMounts < MaxMounts
  /\ Len(sockets) < MaxSockets
  /\ mounted' = TRUE /\ nMounts' = nMounts + 1
  /\ connectWebSocket(nMounts + 1, "effect", FALSE, FALSE, NoSocket)
  /\ UNCHANGED <<wsReconnectTimer, timers, timersUsed, lastDelivery, storeVars, sessionVars>>
  /\ Quiet

\* useEffect cleanup: main.tsx 89-91
EffectCleanup ==
  /\ UNCHANGED <<scanVars, cmdVars>>
  /\ mounted
  /\ mounted' = FALSE
  /\ disconnectWebSocket
  /\ UNCHANGED <<timersUsed, nMounts, lastOpenCall, lastDelivery, storeVars, sessionVars>>
  /\ Quiet

\* ws.onopen: api.ts 206-212
WsOpen(s) ==
  /\ UNCHANGED <<scanVars, cmdVars>>
  /\ sockets[s].readyState = CONNECTING
  /\ sockets' = [sockets EXCEPT ![s].readyState = OPEN]
  /\ timers' = IF wsReconnectTimer # NoTimer THEN clearTimeout(wsReconnectTimer) ELSE timers
  /\ wsReconnectTimer' = NoTimer
  /\ UNCHANGED <<ws, statusCallbacks, timersUsed, mounted, nMounts, lastOpenCall,
                 lastDelivery, storeVars, sessionVars>>
  /\ Quiet

\* the connection fails or is dropped by the peer: onerror logs, onclose runs
WsClose(s) ==
  /\ UNCHANGED <<scanVars, cmdVars>>
  /\ Live(s)
  /\ sockets' = [sockets EXCEPT ![s].readyState = CLOSED]
  /\ onclose(s)
  /\ UNCHANGED <<ws, statusCallbacks, mounted, nMounts, lastOpenCall, lastDelivery, storeVars, sessionVars>>
  /\ Quiet

\* the close event of a socket on which close() was called
WsCloseEvent(s) ==
  /\ UNCHANGED <<scanVars, cmdVars>>
  /\ sockets[s].readyState = CLOSING
  /\ sockets' = [sockets EXCEPT ![s].readyState = CLOSED]
  /\ onclose(s)
  /\ UNCHANGED <<ws, statusCallbacks, mounted, nMounts, lastOpenCall, lastDelivery, storeVars, sessionVars>>
  /\ Quiet

\* disconnectWebSocket ran between the scheduling of timer t and now
TeardownSince(t) == t.scheduledIn # 0 /\ (~mounted \/ nMounts # t.scheduledIn)

\* the setTimeout callback of onclose: api.ts 230-232
TimerFire(t) ==
  /\ UNCHANGED <<scanVars, cmdVars>>
  /\ t \in timers
  /\ WouldConstruct => Len(sockets) < MaxSockets
  /\ timers' = timers \ {t}
  /\ connectWebSocket(t.onMessage, "timer", t.unexpected, TeardownSince(t), t.socket)
  /\ UNCHANGED <<wsReconnectTimer, timersUsed, mounted, nMounts, lastDelivery, storeVars, sessionVars>>
  /\ Quiet

\* ws.onmessage: api.ts 214-221; every registered callback is the store's, and
\* applying a frame twice equals applying it once.  The frame carries the
\* remote's status (a frame that does not parse is dropped by the catch and
\* changes nothing).  AppProvider.connect calls in flight remember the last
\* frame applied since they started.
WsMessage(s) ==
  LET msg == StatusOf(remote) IN
  /\ UNCHANGED <<scanVars, cmdVars>>
  /\ sockets[s].readyState = OPEN
  /\ lastDelivery' = [observers |-> statusCallbacks, mounted |-> mounted,
                      current |-> nMounts]
  /\ IF statusCallbacks # <<>>
       THEN /\ applyRemoteStatus(msg)
            /\ tasks' = [i \in 1..MaxTasks |->
                           IF tasks[i].h # "connect" THEN tasks[i]
                           ELSE [tasks[i] EXCEPT !.frame = IF msg.connected THEN "connected"
                                                           ELSE "disconnected"]]
            /\ sessionLost' = IF msg.connected THEN FALSE
                              ELSE (sessionLost \/ appStatus.connected \/ connected)
       ELSE UNCHANGED <<storeVars, tasks, sessionLost>>
  /\ UNCHANGED <<ws, wsReconnectTimer, statusCallbacks, sockets, timers, timersUsed,
                 mounted, nMounts, lastOpenCall, appVars, remote>>
  /\ Quiet

\* ---------------------------------------------------------- App.tsx
\* handleConnect(address): App.tsx 65-80; the button is disabled for the device
\* the status names as connected (App.tsx 727)
AppHandleConnect(address) ==
  /\ UNCHANGED <<scanVars, cmdVars>>
  /\ ~(appStatus.connected /\ appStatus.device_address = address)
  /\ FreeSlots # {}
  /\ Spawn(Task("handleConnect", "App", "connect", address))
  /\ sessionLost' = FALSE
  /\ UNCHANGED <<wsVars, storeVars, appVars, remote>>
  /\ Quiet

\* await api.connect(address) returns or throws
AppHandleConnect_connect(i, ok) ==
  /\ UNCHANGED <<scanVars, cmdVars>>
  /\ tasks[i].h = "handleConnect" /\ tasks[i].ui = "App" /\ tasks[i].pc = "connect"
  /\ UNCHANGED <<wsVars, storeVars, appVars>>
  /\ IF ok
       THEN /\ RemoteAccepts(tasks[i].arg)
            /\ remote' = tasks[i].arg
            /\ sessionLost' = FALSE
            /\ Continue(i, "getStatus")
            /\ last' = Accepted(tasks[i])
       ELSE /\ Finish(i)
            /\ UNCHANGED <<remote, sessionLost>>
            /\ last' = Finished(tasks[i], "connect")

\* await api.getStatus(); setStatus(newStatus); if (newStatus.connected) ...
AppHandleConnect_getStatus(i, ok) ==
  /\ UNCHANGED <<scanVars, cmdVars>>
  /\ tasks[i].h = "handleConnect" /\ tasks[i].ui = "App" /\ tasks[i].pc = "getStatus"
  /\ UNCHANGED <<wsVars, storeVars, appDeviceInfo, remote, sessionLost>>
  /\ IF ok
       THEN /\ appStatus' = StatusOf(remote)
            /\ IF remote # NoAddr
                 THEN Continue(i, "getDeviceInfo") /\ Quiet
                 ELSE Finish(i) /\ last' = Finished(tasks[i], "ok")
       ELSE /\ UNCHANGED appStatus
            /\ Finish(i)
            /\ last' = Finished(tasks[i], "getStatus")

\* await api.getDeviceInfo(); setDeviceInfo(info)
AppHandleConnect_getDeviceInfo(i, ok) ==
  /\ UNCHANGED <<scanVars, cmdVars>>
  /\ tasks[i].h = "handleConnect" /\ tasks[i].ui = "App" /\ tasks[i].pc = "getDeviceInfo"
  /\ UNCHANGED <<wsVars, storeVars, appStatus, remote, sessionLost>>
  /\ Finish(i)
  /\ IF ok
       THEN /\ RemoteHasInfo
            /\ appDeviceInfo' = TRUE
            /\ last' = Finished(tasks[i], "ok")
       ELSE /\ UNCHANGED appDeviceInfo
            /\ last' = Finished(tasks[i], "getDeviceInfo")

\* handleDisconnect(): App.tsx 82-93; the button is rendered when status.connected (696)
AppHandleDisconnect ==
  /\ UNCHANGED <<scanVars, cmdVars>>
  /\ appStatus.connected
  /\ FreeSlots # {}
  /\ Spawn(Task("handleDisconnect", "App", "disconnect", NoAddr))
  /\ UNCHANGED <<wsVars, storeVars, appVars, remote, sessionLost>>
  /\ Quiet

\* await api.disconnect() returns or throws
AppHandleDisconnect_disconnect(i, ok) ==
  /\ UNCHANGED <<scanVars, cmdVars>>
  /\ tasks[i].h = "handleDisconnect" /\ tasks[i].ui = "App" /\ tasks[i].pc = "disconnect"
  /\ UNCHANGED <<wsVars, storeVars, appVars, sessionLost>>
  /\ IF ok
       THEN /\ remote' = NoAddr
            /\ Continue(i, "getStatus")
            /\ Quiet
       ELSE /\ Finish(i)
            /\ UNCHANGED remote
            /\ last' = Finished(tasks[i], "disconnect")

\* await api.getStatus(); setStatus(newStatus); setDeviceInfo(null)
AppHandleDisconnect_getStatus(i, ok) ==
  /\ UNCHANGED <<scanVars, cmdVars>>
  /\ tasks[i].h = "handleDisconnect" /\ tasks[i].ui = "App" /\ tasks[i].pc = "getStatus"
  /\ UNCHANGED <<wsVars, storeVars, remote, sessionLost>>
  /\ Finish(i)
  /\ IF ok
       THEN /\ appStatus' = StatusOf(remote)
            /\ appDeviceInfo' = FALSE
            /\ last' = Finished(tasks[i], "ok")
       ELSE /\ UNCHANGED appVars
            /\ last' = Finished(tasks[i], "getStatus")

\* the effect App runs when it is mounted: checkStatus(), App.tsx 277-291.  Its
\* getStatus request is in flight when the page is up (Init); the second run
\* StrictMode makes of the effect sends the same requests and calls the same setters.
\* await api.getStatus(); setStatus(currentStatus); the catch only logs
AppCheckStatus_getStatus(i, ok) ==
  /\ UNCHANGED <<scanVars, cmdVars>>
  /\ tasks[i].h = "checkStatus" /\ tasks[i].pc = "getStatus"
  /\ UNCHANGED <<wsVars, storeVars, appDeviceInfo, remote, sessionLost>>
  /\ Quiet
  /\ IF ok
       THEN /\ appStatus' = StatusOf(remote)
            /\ IF remote # NoAddr THEN Continue(i, "getDeviceInfo") ELSE Finish(i)
       ELSE UNCHANGED appStatus /\ Finish(i)

\* await api.getDeviceInfo(); setDeviceInfo(info)
AppCheckStatus_getDeviceInfo(i, ok) ==
  /\ UNCHANGED <<scanVars, cmdVars>>
  /\ tasks[i].h = "checkStatus" /\ tasks[i].pc = "getDeviceInfo"
  /\ UNCHANGED <<wsVars, storeVars, appStatus, remote, sessionLost>>
  /\ Quiet
  /\ Finish(i)
  /\ IF ok
       THEN RemoteHasInfo /\ appDeviceInfo' = TRUE
       ELSE UNCHANGED appDeviceInfo

\* ------------------------------------- ConnectionCard through AppProvider
\* ConnectionCard.handleConnect -> AppProvider.connect(address): main.tsx 109-120;
\* the Connect button is rendered for a device the status does not name and is
\* disabled while status.connected (ConnectionCard.tsx 83-100)
Connect(address) ==
  /\ UNCHANGED <<scanVars, cmdVars>>
  /\ status.device_address # address /\ ~status.connected
  /\ FreeSlots # {}
  /\ Spawn(Task("connect", "Card", "connect", address))
  /\ sessionLost' = FALSE
  /\ UNCHANGED <<wsVars, storeVars, appVars, remote>>
  /\ Quiet

\* await api.connect(address) returns or throws
Connect_connect(i, ok) ==
  /\ UNCHANGED <<scanVars, cmdVars>>
  /\ tasks[i].h = "connect" /\ tasks[i].pc = "connect"
  /\ UNCHANGED <<wsVars, storeVars, appVars>>
  /\ IF ok
       THEN /\ RemoteAccepts(tasks[i].arg)
            /\ remote' = tasks[i].arg
            /\ sessionLost' = FALSE
            /\ Continue(i, "getDeviceInfo")
            /\ last' = Accepted(tasks[i])
       ELSE /\ Finish(i)
            /\ UNCHANGED <<remote, sessionLost>>
            /\ last' = Finished(tasks[i], "connect")

\* await api.getDeviceInfo(); setDeviceInfo; setConnected(true); setDeviceAddress
Connect_getDeviceInfo(i, ok) ==
  /\ UNCHANGED <<scanVars, cmdVars>>
  /\ tasks[i].h = "connect" /\ tasks[i].pc = "getDeviceInfo"
  /\ UNCHANGED <<wsVars, status, appVars, remote, sessionLost>>
  /\ Finish(i)
  /\ IF ok
       THEN /\ RemoteHasInfo
            /\ deviceInfo' = TRUE
            /\ connected' = TRUE
            /\ deviceAddress' = tasks[i].arg
            /\ last' = Finished(tasks[i], "ok")
       ELSE /\ UNCHANGED <<deviceInfo, connected, deviceAddress>>
            /\ last' = Finished(tasks[i], "getDeviceInfo")

\* ConnectionCard.handleDisconnect -> AppProvider.disconnect(): main.tsx 123-133;
\* the Disconnect button is rendered for the device the status names
Disconnect ==
  /\ UNCHANGED <<scanVars, cmdVars>>
  /\ status.device_address # NoAddr
  /\ FreeSlots # {}
  /\ Spawn(Task("disconnect", "Card", "disconnect", NoAddr))
  /\ UNCHANGED <<wsVars, storeVars, appVars, remote, sessionLost>>
  /\ Quiet

\* await api.disconnect() returns or throws
Disconnect_disconnect(i, ok) ==
  /\ UNCHANGED <<scanVars, cmdVars>>
  /\ tasks[i].h = "disconnect" /\ tasks[i].pc = "disconnect"
  /\ UNCHANGED <<wsVars, status, appVars, sessionLost>>
  /\ Finish(i)
  /\ IF ok
       THEN /\ remote' = NoAddr
            /\ connected' = FALSE
            /\ deviceAddress' = NoAddr
            /\ deviceInfo' = FALSE
            /\ last' = Finished(tasks[i], "ok")
       ELSE /\ UNCHANGED <<remote, connected, deviceAddress, deviceInfo>>
            /\ last' = Finished(tasks[i], "disconnect")

\* the remote session ends on its own (device out of range, switched off)
RemoteDrop ==
  /\ UNCHANGED <<scanVars, cmdVars>>
  /\ remote # NoAddr
  /\ remote' = NoAddr
  /\ UNCHANGED <<wsVars, storeVars, appVars, tasks, sessionLost>>
  /\ Quiet

\* ------------------------------------------------------------ commands
\* the value a command handler is invoked with: for text it is text.length, for
\* pixels Object.keys(pixelGrid).length, for brightness and orientation the
\* handler's argument; the other handlers take none.  Offered are values the
\* page's controls produce: any text, any grid, a slider with min 0 and max 100
\* (App.tsx 748-755), a select with options 0..3 (763-768)
Offered(family) ==
  CASE family = "brightness" -> {100}
    [] family = "orientation" -> {3}
    [] family = "text" -> {0, 6}
    [] family = "pixels" -> {0, 1}
    [] OTHER -> {0}

\* handleSetBrightness(value: number) and handleSetOrientation(value: number),
\* and the requests of the context and of api.ts, take any number
Values(family) ==
  CASE family = "brightness" -> {-1, 0, 100, 101}
    [] family = "orientation" -> {-1, 0, 3, 4}
    [] family = "text" -> {0, 6}
    [] family = "pixels" -> {0, 1}
    [] OTHER -> {0}

\* the only check of a value in a handler: `if (pixelCount === 0)` in
\* handleSendPixels (App.tsx 156-160)
LocallyValid(family, value) == ~(family = "pixels" /\ value = 0)

\* what the head of a command handler does with a command: the connected check
\* comes first, then (handleSendPixels only, App.tsx 156-160) the empty-grid check
Outcome(st, valid) ==
  IF NotConnectedGuard(st) THEN "NotConnected"
  ELSE IF ~valid THEN "InvalidCommand"
  ELSE "requested"

\* a command handler is invoked: it reads the status, then returns or hands its
\* first request to fetch and waits for it.  handleTogglePower asks for
\* !isPowered (App.tsx 224); handlePowerToggle does too and displays it at once
\* (SettingsCard.tsx 43-44)
Submit(ui, family, st, value) ==
  LET outcome == Outcome(st, LocallyValid(family, value))
      on == family = "power" /\ ~(IF ui = "App" THEN appIsPowered ELSE isPowered)
  IN
  /\ UNCHANGED scanVars
  /\ UNCHANGED <<wsVars, storeVars, sessionVars, appIsPowered, powerAcked, appPowerAcked>>
  /\ IF outcome = "requested"
       THEN /\ commands' = commands (+) SetToBag({Command(ui, family, on)})
            /\ isPowered' = IF ui = "Card" /\ family = "power" THEN on ELSE isPowered
       ELSE UNCHANGED <<commands, isPowered>>
  /\ last' = Submitted(ui, family, st, value, outcome)

\* handleSendText, handleImageUpload, handleSendPixels, handleSetClockMode,
\* handleSetBrightness, handleSetOrientation, handleTogglePower (App.tsx 95-231)
\* read App's status; none of their controls is ever disabled
AppSubmit(family, value) ==
  Submit("App", family, appStatus, value)

\* EditorCard.handleSendText / handleImageUpload, the context's setMode,
\* SettingsCard.handleBrightnessChange / handleOrientationChange / handlePowerToggle
\* read the context's status; their controls are disabled while it is
\* disconnected, and EditorCard's send button while the text is empty
CardSubmit(family, value) ==
  /\ status.connected
  /\ family = "text" => value # 0
  /\ Submit("Card", family, status, value)

\* a catch that hands the request to fetch once more
Thrown_Resent(c) ==
  IF Len(c.requests) < 3
    THEN (commands (-) SetToBag({c}))
           (+) SetToBag({[c EXCEPT !.requests = Append(@, Awaited(c))]})
    ELSE commands (-) SetToBag({c})

\* the commands in flight once the request of c has thrown: the catch of the
\* handler logs and toasts (the context's method logs and rethrows, main.tsx
\* 136-193), and the handler returns
Thrown(c) == commands (-) SetToBag({c})

\* the power state the pages display once the request of a power command has
\* returned: handleTogglePower calls setIsPowered(!isPowered) when it returned
\* (App.tsx 225); handlePowerToggle calls setIsPowered(!newPowerState) when it
\* threw (SettingsCard.tsx 49-52)
setIsPowered(c, ok) ==
  /\ appIsPowered' = IF c.ui = "App" /\ c.family = "power" /\ ok THEN c.on ELSE appIsPowered
  /\ isPowered' = IF c.ui = "Card" /\ c.family = "power" /\ ~ok THEN ~c.on ELSE isPowered
  /\ appPowerAcked' = IF c.ui = "App" /\ c.family = "power" /\ ok THEN c.on ELSE appPowerAcked
  /\ powerAcked' = IF c.ui = "Card" /\ c.family = "power" /\ ok THEN c.on ELSE powerAcked

\* a command handler whose catch resets the session it holds
CommandReturns_ResetsSession(c, ok) ==
  /\ UNCHANGED scanVars
  /\ BagIn(c, commands)
  /\ UNCHANGED <<wsVars, taskVars>>
  /\ IF ok /\ Awaited(c) = "setMode" /\ c.family = "pixels"
       THEN /\ commands' = (commands (-) SetToBag({c}))
                             (+) SetToBag({[c EXCEPT !.requests = Append(@, "sendPixels")]})
            /\ UNCHANGED <<storeVars, appVars, isPowered, appIsPowered, powerAcked, appPowerAcked>>
            /\ last' = Requested(c, "sendPixels")
       ELSE /\ commands' = IF ok THEN commands (-) SetToBag({c}) ELSE Thrown(c)
            /\ setIsPowered(c, ok)
            /\ IF ok THEN UNCHANGED <<storeVars, appVars>>
               ELSE /\ appStatus' = Disconnected /\ appDeviceInfo' = FALSE
                    /\ connected' = FALSE /\ UNCHANGED <<deviceAddress, deviceInfo, status>>
            /\ last' = Returned(c, IF ok THEN "ok" ELSE "failed")

\* the awaited request of a command returns or throws; handleSendPixels sends
\* the pixel batch after setMode('diy') has returned (App.tsx 163-174); then the
\* handler toasts and returns
CommandReturns(c, ok) ==
  /\ UNCHANGED scanVars
  /\ BagIn(c, commands)
  /\ UNCHANGED <<wsVars, storeVars, sessionVars>>
  /\ IF ok /\ Awaited(c) = "setMode" /\ c.family = "pixels"
       THEN /\ commands' = (commands (-) SetToBag({c}))
                             (+) SetToBag({[c EXCEPT !.requests = Append(@, "sendPixels")]})
            /\ UNCHANGED <<isPowered, appIsPowered, powerAcked, appPowerAcked>>
            /\ last' = Requested(c, "sendPixels")
       ELSE /\ commands' = IF ok THEN commands (-) SetToBag({c}) ELSE Thrown(c)
            /\ setIsPowered(c, ok)
            /\ last' = Returned(c, IF ok THEN "ok" ELSE "failed")

\* ------------------------------------------------------------ discovery
UIs == {"App", "Card"}

NoScanEvent == [kind |-> "none", ui |-> "-", inFlight |-> 0, requested |-> FALSE,
                ok |-> FALSE, found |-> {}, before |-> {}, list |-> {},
                scanning |-> FALSE, toast |-> "none", count |-> 0]

\* scan requests in flight, of both handlers
InFlight == scanTasks["App"] + scanTasks["Card"]

\* a scan handler was invoked: inFlight is the number of scan requests awaited
\* at that moment, requested whether the handler handed one more to fetch
ScanStarted(ui) ==
  [NoScanEvent EXCEPT !.kind = "start", !.ui = ui,
                      !.inFlight = InFlight,
                      !.requested = (scanTasks' # scanTasks)]

\* the awaited scan request returned (ok, with the devices found) or threw:
\* before / list are the handler's device list before and after, scanning its
\* flag after, toast the notification it raised and count the number of
\* devices a success toast announces
ScanDone(ui, ok, found, before, toast, count) ==
  [NoScanEvent EXCEPT !.kind = "done", !.ui = ui, !.ok = ok, !.found = found,
                      !.before = before,
                      !.list = IF ui = "App" THEN appDevices' ELSE devices',
                      !.scanning = IF ui = "App" THEN appScanning' ELSE scanning',
                      !.toast = toast, !.count = IF ok THEN count ELSE 0]

\* a device list that keeps what earlier scans found
setDevices_Merged(prev, foundDevices) == prev \cup foundDevices

\* setDevices(foundDevices): App.tsx 55, main.tsx 99
setDevices(prev, foundDevices) == foundDevices

\* a Scan button that stays enabled
ScanButtonDisabled_Never(flag) == FALSE

\* disabled={scanning}: App.tsx 692, ConnectionCard.tsx 44
ScanButtonDisabled(flag) == flag

\* handleScan(): App.tsx 51-63; the Scan button is disabled while scanning (692)
AppHandleScan ==
  /\ ~ScanButtonDisabled(appScanning)
  /\ scanTasks["App"] < MaxScans
  /\ appScanning' = TRUE
  /\ scanTasks' = [scanTasks EXCEPT !["App"] = @ + 1]
  /\ lastScan' = ScanStarted("App")
  /\ UNCHANGED <<wsVars, storeVars, sessionVars, last, cmdVars, devices, scanning, appDevices>>

\* await api.scanDevices() returns the devices found or throws (api.ts 50-56)
AppHandleScan_scanDevices(ok, found) ==
  /\ scanTasks["App"] > 0
  /\ ~ok => found = {}
  /\ scanTasks' = [scanTasks EXCEPT !["App"] = @ - 1]
  /\ appDevices' = IF ok THEN setDevices(appDevices, found) ELSE appDevices
  /\ appScanning' = FALSE
  /\ lastScan' = ScanDone("App", ok, found, appDevices, IF ok THEN "success" ELSE "error",
                          Cardinality(found))
  /\ UNCHANGED <<wsVars, storeVars, sessionVars, last, cmdVars, devices, scanning>>

\* ConnectionCard.handleScan -> AppProvider.scanDevices(): ConnectionCard.tsx
\* 10-17, main.tsx 95-106; the Scan button is disabled while the context is
\* scanning or its status is connected (ConnectionCard.tsx 44)
ScanDevices ==
  /\ ~ScanButtonDisabled(scanning) /\ ~status.connected
  /\ scanTasks["Card"] < MaxScans
  /\ scanning' = TRUE
  /\ scanTasks' = [scanTasks EXCEPT !["Card"] = @ + 1]
  /\ lastScan' = ScanStarted("Card")
  /\ UNCHANGED <<wsVars, storeVars, sessionVars, last, cmdVars, devices, appDevices, appScanning>>

\* await api.scanDevices() returns or throws; scanDevices rethrows to
\* handleScan, whose success toast reads devices.length of the render it was
\* created in, the list from before the scan (ConnectionCard.tsx 8, 13)
ScanDevices_scanDevices(ok, found) ==
  /\ scanTasks["Card"] > 0
  /\ ~ok => found = {}
  /\ scanTasks' = [scanTasks EXCEPT !["Card"] = @ - 1]
  /\ devices' = IF ok THEN setDevices(devices, found) ELSE devices
  /\ scanning' = FALSE
  /\ lastScan' = ScanDone("Card", ok, found, devices, IF ok THEN "success" ELSE "error",
                          Cardinality(devices))
  /\ UNCHANGED <<wsVars, storeVars, sessionVars, last, cmdVars, appDevices, appScanning>>


Init ==
  /\ ws = NoSocket /\ wsReconnectTimer = NoTimer /\ statusCallbacks = <<>>
  /\ sockets = <<>> /\ timers = {} /\ timersUsed = 0
  /\ mounted = FALSE /\ nMounts = 0
  /\ connected = FALSE /\ deviceAddress = NoAddr /\ deviceInfo = FALSE
  /\ status = Disconnected
  /\ lastOpenCall = [by |-> "none", unexpected |-> FALSE, teardownSince |-> FALSE,
                     constructed |-> FALSE]
  /\ lastDelivery = [observers |-> <<>>, mounted |-> FALSE, current |-> 0]
  /\ appStatus = Disconnected /\ appDeviceInfo = FALSE
  /\ remote \in Addr \cup {NoAddr}
  /\ tasks = [i \in 1..MaxTasks |->
               IF i = 1 THEN Task("checkStatus", "App", "getStatus", NoAddr) ELSE Idle]
  /\ last = NoEvent
  /\ sessionLost = FALSE
  /\ devices = {} /\ scanning = FALSE
  /\ appDevices = {} /\ appScanning = FALSE
  /\ scanTasks = [ui \in UIs |-> 0] /\ lastScan = NoScanEvent
  /\ commands = EmptyBag
  /\ isPowered = TRUE /\ appIsPowered = TRUE
  /\ powerAcked = TRUE /\ appPowerAcked = TRUE

NextWs ==
  \/ EffectMount
  \/ EffectCleanup
  \/ \E s \in 1..Len(sockets) : WsOpen(s)
  \/ \E s \in 1..Len(sockets) : WsClose(s)
  \/ \E s \in 1..Len(sockets) : WsCloseEvent(s)
  \/ \E t \in timers : TimerFire(t)
  \/ \E s \in 1..Len(sockets) : WsMessage(s)

SpecWs == Init /\ [][NextWs]_vars

\* a pending setTimeout callback runs once its delay has elapsed, unless
\* clearTimeout removed it before
TimersFire == \A id \in 1..MaxTimers : WF_vars(\E t \in timers : t.id = id /\ TimerFire(t))

\* the life of the channel without the frames it carries
NextReopen ==
  \/ EffectMount
  \/ EffectCleanup
  \/ \E s \in 1..Len(sockets) : WsOpen(s)
  \/ \E s \in 1..Len(sockets) : WsClose(s)
  \/ \E s \in 1..Len(sockets) : WsCloseEvent(s)
  \/ \E t \in timers : TimerFire(t)

SpecReopen == Init /\ [][NextReopen]_vars /\ TimersFire

NextSession ==
  \/ \E a \in Addr : AppHandleConnect(a)
  \/ \E i \in 1..MaxTasks, ok \in BOOLEAN : AppHandleConnect_connect(i, ok)
  \/ \E i \in 1..MaxTasks, ok \in BOOLEAN : AppHandleConnect_getStatus(i, ok)
  \/ \E i \in 1..MaxTasks, ok \in BOOLEAN : AppHandleConnect_getDeviceInfo(i, ok)
  \/ \E i \in 1..MaxTasks, ok \in BOOLEAN : AppCheckStatus_getStatus(i, ok)
  \/ \E i \in 1..MaxTasks, ok \in BOOLEAN : AppCheckStatus_getDeviceInfo(i, ok)
  \/ AppHandleDisconnect
  \/ \E i \in 1..MaxTasks, ok \in BOOLEAN : AppHandleDisconnect_disconnect(i, ok)
  \/ \E i \in 1..MaxTasks, ok \in BOOLEAN : AppHandleDisconnect_getStatus(i, ok)
  \/ \E a \in Addr : Connect(a)
  \/ \E i \in 1..MaxTasks, ok \in BOOLEAN : Connect_connect(i, ok)
  \/ \E i \in 1..MaxTasks, ok \in BOOLEAN : Connect_getDeviceInfo(i, ok)
  \/ Disconnect
  \/ \E i \in 1..MaxTasks, ok \in BOOLEAN : Disconnect_disconnect(i, ok)
  \/ RemoteDrop
  \/ \E f \in AppFamilies : \E v \in Offered(f) : Suspended < MaxTasks /\ AppSubmit(f, v)
  \/ \E f \in CardFamilies : \E v \in Offered(f) : Suspended < MaxTasks /\ CardSubmit(f, v)
  \/ \E c \in BagToSet(commands), ok \in BOOLEAN : CommandReturns(c, ok)

\* the session over a channel that is opened once and stays up
Next ==
  \/ EffectMount
  \/ \E s \in 1..Len(sockets) : WsOpen(s)
  \/ \E s \in 1..Len(sockets) : WsMessage(s)
  \/ NextSession

Spec == Init /\ [][Next]_vars

\* discovery alone: both scan handlers and the requests they await
NextScan ==
  \/ AppHandleScan
  \/ \E ok \in BOOLEAN, found \in SUBSET Addr : AppHandleScan_scanDevices(ok, found)
  \/ ScanDevices
  \/ \E ok \in BOOLEAN, found \in SUBSET Addr : ScanDevices_scanDevices(ok, found)

SpecScan == Init /\ [][NextScan]_vars

\* the connect and disconnect handlers of both UIs, the status check and the
\* frames, without commands
NextConnect ==
  \/ EffectMount
  \/ \E s \in 1..Len(sockets) : WsOpen(s)
  \/ \E s \in 1..Len(sockets) : WsMessage(s)
  \/ \E a \in Addr : AppHandleConnect(a)
  \/ \E i \in 1..MaxTasks, ok \in BOOLEAN : AppHandleConnect_connect(i, ok)
  \/ \E i \in 1..MaxTasks, ok \in BOOLEAN : AppHandleConnect_getStatus(i, ok)
  \/ \E i \in 1..MaxTasks, ok \in BOOLEAN : AppHandleConnect_getDeviceInfo(i, ok)
  \/ \E i \in 1..MaxTasks, ok \in BOOLEAN : AppCheckStatus_getStatus(i, ok)
  \/ \E i \in 1..MaxTasks, ok \in BOOLEAN : AppCheckStatus_getDeviceInfo(i, ok)
  \/ AppHandleDisconnect
  \/ \E i \in 1..MaxTasks, ok \in BOOLEAN : AppHandleDisconnect_disconnect(i, ok)
  \/ \E i \in 1..MaxTasks, ok \in BOOLEAN : AppHandleDisconnect_getStatus(i, ok)
  \/ \E a \in Addr : Connect(a)
  \/ \E i \in 1..MaxTasks, ok \in BOOLEAN : Connect_connect(i, ok)
  \/ \E i \in 1..MaxTasks, ok \in BOOLEAN : Connect_getDeviceInfo(i, ok)
  \/ Disconnect
  \/ \E i \in 1..MaxTasks, ok \in BOOLEAN : Disconnect_disconnect(i, ok)
  \/ RemoteDrop

SpecConnect == Init /\ [][NextConnect]_vars

\* the command handlers invoked with any number, on a session that the status
\* check found (and that may end on its own) and a channel that stays up
NextCmd ==
  \/ EffectMount
  \/ \E s \in 1..Len(sockets) : WsOpen(s)
  \/ \E s \in 1..Len(sockets) : WsMessage(s)
  \/ \E i \in 1..MaxTasks, ok \in BOOLEAN : AppCheckStatus_getStatus(i, ok)
  \/ \E i \in 1..MaxTasks, ok \in BOOLEAN : AppCheckStatus_getDeviceInfo(i, ok)
  \/ \E f \in AppFamilies : \E v \in Values(f) : Suspended < MaxTasks /\ AppSubmit(f, v)
  \/ \E f \in CardFamilies : \E v \in Values(f) : Suspended < MaxTasks /\ CardSubmit(f, v)
  \/ \E c \in BagToSet(commands), ok \in BOOLEAN : CommandReturns(c, ok)
  \/ RemoteDrop

SpecCmd == Init /\ [][NextCmd]_vars

\* command handlers that overlap: the controls of both pages used again while
\* requests are awaited, and App's Disconnect button, on a session that the
\* status check found and a channel that stays up
NextOverlap ==
  \/ EffectMount
  \/ \E s \in 1..Len(sockets) : WsOpen(s)
  \/ \E s \in 1..Len(sockets) : WsMessage(s)
  \/ \E i \in 1..MaxTasks, ok \in BOOLEAN : AppCheckStatus_getStatus(i, ok)
  \/ \E i \in 1..MaxTasks, ok \in BOOLEAN : AppCheckStatus_getDeviceInfo(i, ok)
  \/ AppHandleDisconnect
  \/ \E i \in 1..MaxTasks, ok \in BOOLEAN : AppHandleDisconnect_disconnect(i, ok)
  \/ \E i \in 1..MaxTasks, ok \in BOOLEAN : AppHandleDisconnect_getStatus(i, ok)
  \/ \E f \in AppFamilies : \E v \in Offered(f) :
       BagCardinality(commands) < MaxCommands /\ AppSubmit(f, v)
  \/ \E f \in CardFamilies : \E v \in Offered(f) :
       BagCardinality(commands) < MaxCommands /\ CardSubmit(f, v)
  \/ \E c \in BagToSet(commands), ok \in BOOLEAN : CommandReturns(c, ok)

SpecOverlap == Init /\ [][NextOverlap]_vars

\* ------------------------------------------------------- channel claims
\* number of times observer o occurs in a callback list
RECURSIVE Occurrences(_, _)
Occurrences(cbs, o) ==
  IF cbs = <<>> THEN 0
  ELSE (IF Head(cbs) = o THEN 1 ELSE 0) + Occurrences(Tail(cbs), o)

\* C5: after disconnectWebSocket, and until the effect opens the channel anew,
\* no socket is connecting or open and no reopen timer is pending (so the close
\* event of the torn-down socket has scheduled none).
C5_TeardownLeavesNothing ==
  tornDown => (LiveSockets = {} /\ timers = {})

\* C6: the reopen timer of an unexpected closure makes no channel open call
\* when disconnectWebSocket was called before its delay elapsed.
C6_TeardownPreventsReopen ==
  ~(lastOpenCall.by = "timer" /\ lastOpenCall.unexpected /\ lastOpenCall.teardownSince)

\* C7: a frame received while an observer is subscribed invokes that observer
\* exactly once (it is in the callback list once, however many reconnections
\* came before).
C7_DeliveredExactlyOnce ==
  lastDelivery.mounted => Occurrences(lastDelivery.observers, lastDelivery.current) = 1

\* C8: at most one WebSocket is connecting or open at any time.
C8_AtMostOneChannel ==
  Cardinality(LiveSockets) <= 1

\* ------------------------------------------------------- session claims
ConnectHandlers == {"handleConnect", "connect"}
DisconnectHandlers == {"handleDisconnect", "disconnect"}

\* C1: in every state of the context store the device address is defined if
\* and only if the connected flag is set.
C1_AddressIffConnected ==
  (deviceAddress # NoAddr) <=> connected

C3_ConnectAllOrNothing ==
  (last.kind = "finished" /\ last.h \in ConnectHandlers /\ last.outcome = "getDeviceInfo")
    => (~last.connected /\ last.address = NoAddr /\ ~last.info)

\* C4: a disconnect handler that has run to its end leaves its store
\* disconnected, without address and without capabilities, whether the remote
\* call returned or threw.
C4_DisconnectAlwaysLocal ==
  (last.kind = "finished" /\ last.h \in DisconnectHandlers)
    => (~last.connected /\ last.address = NoAddr /\ ~last.info)

\* C9: a command submitted after a frame reported the connected session gone,
\* and before any new connect, is refused as NotConnected without a request.
C9_RefusedAfterDisconnectFrame ==
  (last.kind = "submit" /\ last.lost)
    => (last.outcome = "NotConnected" /\ ~last.requested)

\* C10: when the last frame applied while AppProvider.connect was in flight
\* reported disconnected, the completion of that connect does not leave the
\* store connected.
C10_FrameNotOverridden ==
  ~(last.kind = "finished" /\ last.h = "connect" /\ last.frame = "disconnected"
    /\ last.connected)
\* ----------------------------------------------------- discovery claims
\* C11: a scan handler invoked while a scan request is awaited is rejected and
\* hands no second request to fetch (so at most one is in flight).
C11_SecondScanRejected ==
  (lastScan.kind = "start" /\ lastScan.inFlight > 0) => ~lastScan.requested

\* C12: when a scan request returns the devices found, the handler's device
\* list is exactly that result: nothing of the list before remains unless the
\* scan found it again.
C12_ListIsLastResult ==
  (lastScan.kind = "done" /\ lastScan.ok) => lastScan.list = lastScan.found

\* C12 witness: a scan returned only B to a handler that listed A and B.
C12_Witness ==
  /\ lastScan.kind = "done" /\ lastScan.ok
  /\ lastScan.before = {"A", "B"} /\ lastScan.found = {"B"} /\ lastScan.list = {"B"}

\* C17: when a scan request throws, the handler is not scanning any more and
\* its device list is empty.
C17_FailedScanYieldsNothing ==
  (lastScan.kind = "done" /\ ~lastScan.ok)
    => (~lastScan.scanning /\ lastScan.list = {})
\* C26: each handler's scanning flag is true exactly while a scan request of
\* that handler is awaited.
C26_ScanningIffInFlight ==
  /\ appScanning <=> scanTasks["App"] > 0
  /\ scanning <=> scanTasks["Card"] > 0

\* C26 witness: App is scanning again, with a request in flight, after an
\* earlier scan has listed devices and cleared the flag.
C26_Witness ==
  appScanning /\ scanTasks["App"] = 1 /\ appDevices # {}

\* C29: the success toast of a scan announces as many devices as the scan found.
C29_ToastCountsResult ==
  (lastScan.kind = "done" /\ lastScan.ok /\ lastScan.toast = "success")
    => lastScan.count = Cardinality(lastScan.found)

\* ------------------------------------------- session and command claims
\* C13: in every state each store holds capabilities if and only if it reports
\* the session connected (the context's store and App's own).
C13_InfoIffConnected ==
  /\ deviceInfo <=> connected
  /\ appDeviceInfo <=> appStatus.connected

\* BrightnessRequest.brightness is 0-100, OrientationRequest.orientation 0-3
InRange(family, value) ==
  CASE family = "brightness" -> value \in 0..100
    [] family = "orientation" -> value \in 0..3
    [] OTHER -> TRUE

\* C14: a brightness or orientation handler invoked on a connected status hands
\* its request to fetch when the value is in range (0 and 100 included) and
\* refuses it as InvalidCommand, without a request, when it is not.
C14_OutOfRangeRefused ==
  (last.kind = "submit" /\ last.connected /\ last.h \in {"brightness", "orientation"})
    => IF InRange(last.h, last.value)
         THEN last.outcome = "requested" /\ last.requested
         ELSE last.outcome = "InvalidCommand" /\ ~last.requested

\* C15: a text handler invoked with empty text, or a pixel handler with an empty
\* grid, on a connected status refuses the command as InvalidCommand and hands
\* no request to fetch.
C15_EmptyRefused ==
  (last.kind = "submit" /\ last.connected /\ last.h \in {"text", "pixels"}
     /\ last.value = 0)
    => (last.outcome = "InvalidCommand" /\ ~last.requested)

\* a step of a command handler: its invocation, or the return of a request it awaits
CommandStep ==
  \/ last'.kind = "submit"
  \/ commands' # commands

\* C16: no step of a command handler (refused, requested, request returned or
\* thrown) changes the connected flag, the device address, the capabilities or
\* the status of either store.
C16_CommandsLeaveSession ==
  [][CommandStep => UNCHANGED <<storeVars, appVars>>]_vars

\* C16 witness: the request of a command threw and App's store still reports
\* the session connected, with its capabilities.
C16_Witness ==
  /\ last.kind = "returned" /\ last.outcome = "failed"
  /\ appStatus.connected /\ appDeviceInfo

C20_FailureNotified ==
  /\ (last.kind = "submit" /\ last.outcome \in {"NotConnected", "InvalidCommand"})
       => last.toast = "error"
  /\ (last.kind = "returned" /\ last.outcome = "failed") => last.toast = "error"
  /\ (last.kind = "finished" /\ last.outcome # "ok") => last.toast = "error"
  /\ (lastScan.kind = "done" /\ ~lastScan.ok) => lastScan.toast = "error"

\* ------------------------------------------------------ reconnection claim
\* disconnectWebSocket has been called at some point of the run
teardownRequested == nMounts > 1 \/ (nMounts = 1 /\ ~mounted)

\* socket s was closed without close() having been called on it
ClosedUnexpectedly(s) ==
  s <= Len(sockets) /\ sockets[s].readyState = CLOSED /\ ~sockets[s].closeCalled

\* the reopen timer of socket s ran connectWebSocket with the observer of s
ReopenedFrom(s) ==
  \E r \in 1..Len(sockets) :
    sockets[r].from = s /\ sockets[r].onMessage = sockets[s].onMessage

\* C19: every reopen timer has the 3000 ms delay, and while disconnectWebSocket
\* has not been called every socket closed unexpectedly (the first one or one a
\* reopen constructed) is eventually followed by a connectWebSocket call of its
\* timer with the same observer.
C19_ReopenFollowsClosure ==
  /\ [](\A t \in timers : t.delay = ReconnectDelay)
  /\ \A s \in 1..MaxSockets :
       (ClosedUnexpectedly(s) /\ ~teardownRequested)
         ~> (teardownRequested \/ ReopenedFrom(s))

\* C19 witness: without any teardown, a socket that a reopen had constructed
\* closed in its turn and was reopened again with the observer of the effect.
C19_Witness ==
  /\ ~teardownRequested
  /\ \E s \in 1..Len(sockets) :
       /\ sockets[s].from # NoSocket /\ ClosedUnexpectedly(s) /\ ReopenedFrom(s)
       /\ sockets[s].onMessage = 1

\* ------------------------------------------------- command dispatch claims
\* number of commands in flight that the control of the given page and
\* family submitted
FromControl(ui, family) ==
  BagCardinality([c \in {d \in BagToSet(commands) : d.ui = ui /\ d.family = family}
                    |-> commands[c]])

\* C21: each command control has at most one command in flight at any time
\* (a control used again while its request is awaited submits nothing).
C21_SingleFlightPerControl ==
  \A ui \in UIs, family \in AppFamilies : FromControl(ui, family) <= 1

\* C22: a command handler whose request the remote rejected receives an error
\* that carries the remote's detail, and one whose request was acknowledged
\* receives none, whatever the command family.
C22_RejectionCarriesDetail ==
  /\ (last.kind = "returned" /\ last.outcome = "failed") => last.error = "detail"
  /\ (last.kind = "returned" /\ last.outcome = "ok") => last.error = "none"

\* no request occurs twice in a sequence of requests
NoRepeat(requests) ==
  \A i, j \in 1..Len(requests) : i # j => requests[i] # requests[j]

\* C23: a submitted command hands no request to fetch twice, only a submission
\* adds a command in flight, and a request that throws ends its command: the
\* command leaves the commands in flight and nothing is sent in its place.
C23_NeverRetried ==
  [][/\ \A c \in BagToSet(commands') : NoRepeat(c.requests)
     /\ BagCardinality(commands') > BagCardinality(commands) => last'.kind = "submit"
     /\ (last'.kind = "returned" /\ last'.outcome = "failed")
          => BagCardinality(commands') = BagCardinality(commands) - 1]_vars

\* C23 witness: the request of a command threw on a connected session and no
\* command is in flight after it.
C23_Witness ==
  /\ last.kind = "returned" /\ last.outcome = "failed"
  /\ commands = EmptyBag /\ appStatus.connected /\ remote # NoAddr

\* C24: once disconnectWebSocket has run the callback list stays empty until
\* the effect opens the channel anew, and a frame invokes no observer other
\* than the one of the effect run that is set up.
C24_TornDownObserversSilent ==
  /\ tornDown => statusCallbacks = <<>>
  /\ \A k \in 1..Len(lastDelivery.observers) :
       lastDelivery.mounted /\ lastDelivery.observers[k] = lastDelivery.current

\* C25: in every state of the context store, status.connected equals the
\* connected flag and status.device_address equals deviceAddress.
C25_OneViewOfConnection ==
  /\ status.connected = connected
  /\ status.device_address = deviceAddress

\* C27: handleSendPixels hands setMode to fetch only when it read a connected
\* status, and hands sendPixels to fetch only after setMode has returned and
\* while the status is connected.
C27_PixelsAfterModeWhileConnected ==
  /\ (last.kind = "submit" /\ last.h = "pixels" /\ last.requested) => last.connected
  /\ (last.kind = "request" /\ last.h = "sendPixels")
       => (last.outcome = "ok" /\ last.connected)

\* C28: while a page has no power command in flight, the power state it
\* displays is the on / off value of its last acknowledged power command (on
\* when none was acknowledged).
C28_DisplayedIsLastAcked ==
  /\ FromControl("App", "power") = 0 => appIsPowered = appPowerAcked
  /\ FromControl("Card", "power") = 0 => isPowered = powerAcked
====
